---- MODULE Spec2Model ----
(***************************************************************************)
(* A model of the budget / category engine of the Budgetly backend:        *)
(* Budget.save (period resolution), the category percentage ceiling, the   *)
(* budget-category allocations, and the budget alerts.                     *)
(*                                                                         *)
(* Money is counted in cents and percentages in whole percent, so that     *)
(* Decimal arithmetic with two places is exact integer arithmetic here.    *)
(* Dates are records [year, month, day]; date arithmetic goes through the  *)
(* proleptic Gregorian ordinal, as datetime.date does.                     *)
(***************************************************************************)
EXTENDS Integers, Sequences, FiniteSets, TLC

VARIABLES
    categories,     \* rows of categories.Category
    budgets,        \* rows of budgets.Budget
    allocations,    \* rows of budgets.BudgetCategory
    expenses,       \* rows of expenses.Expense
    alerts,         \* rows of budgets.BudgetAlert
    nextId,         \* per table, the next auto-increment primary key
    requests,       \* API requests in flight (one per concurrent worker)
    today,          \* the clock: timezone.now().date()
    call,           \* the arguments of the last operation
    resp,           \* the outcome of the last operation
    accounts,       \* rows of accounts.User
    counters        \* per counted record, its stored usage / message count

vars == <<categories, budgets, allocations, expenses, alerts, nextId,
          requests, today, call, resp, accounts, counters>>

----------------------------------------------------------------------------
(* Bounds of the model *)

\* the calendar years start dates are drawn from: 2023 .. 2023 + YearSpan,
\* and the century years 1900 (not leap) and 2000 (leap)
YearSpan == 1

\* how many budgets are ever created in the store
MaxBudgets == 2

\* how many categories are ever created
MaxCategories == 2

\* the longest list a bulk update carries
MaxBulk == 2

\* how many allocation rows are ever created
MaxAllocations == 3

\* how many allocation requests are in flight at once
NumWorkers == 2

\* how many expenses are ever created
MaxExpenses == 2

\* how many alerts are ever created
MaxAlerts == 2

\* how many days the clock advances
MaxTicks == 2

\* the increment calls one worker makes
MaxIncrements == 2

----------------------------------------------------------------------------
(* datetime.date: ordinals, replace(), + timedelta *)

NoDate == [year |-> 0, month |-> 0, day |-> 0]      \* None

DAYS_IN_MONTH == <<31, 28, 31, 30, 31, 30, 31, 31, 30, 31, 30, 31>>

DAYS_BEFORE_MONTH == <<0, 31, 59, 90, 120, 151, 181, 212, 243, 273, 304, 334>>

IsLeap(year) == year % 4 = 0 /\ (year % 100 # 0 \/ year % 400 = 0)

DaysInMonth(year, month) ==
    IF month = 2 /\ IsLeap(year) THEN 29 ELSE DAYS_IN_MONTH[month]

DaysBeforeYear(year) ==
    LET y == year - 1 IN y * 365 + (y \div 4) - (y \div 100) + (y \div 400)

DaysBeforeMonth(year, month) ==
    DAYS_BEFORE_MONTH[month] + (IF month > 2 /\ IsLeap(year) THEN 1 ELSE 0)

\* the constructor date(year, month, day) raises ValueError unless this holds
IsValidDate(year, month, day) ==
    /\ year \in 1..9999
    /\ month \in 1..12
    /\ day \in 1..DaysInMonth(year, month)

Date(y, m, d) == [year |-> y, month |-> m, day |-> d]

ToOrdinal(d) == DaysBeforeYear(d.year) + DaysBeforeMonth(d.year, d.month) + d.day

FromOrdinal(ordinal) ==
    LET n0   == ordinal - 1
        di400 == DaysBeforeYear(401)
        di100 == DaysBeforeYear(101)
        di4   == DaysBeforeYear(5)
        n400 == n0 \div di400
        r400 == n0 % di400
        n100 == r400 \div di100
        r100 == r400 % di100
        n4   == r100 \div di4
        r4   == r100 % di4
        n1   == r4 \div 365
        n    == r4 % 365
        year == n400 * 400 + 1 + n100 * 100 + n4 * 4 + n1
        leapyear == n1 = 3 /\ (n4 # 24 \/ n100 = 3)
        leapday(m) == IF m > 2 /\ leapyear THEN 1 ELSE 0
        month0 == (n + 50) \div 32
        prec0  == DAYS_BEFORE_MONTH[month0] + leapday(month0)
        month  == IF prec0 > n THEN month0 - 1 ELSE month0
        prec   == IF prec0 > n
                  THEN prec0 - (DAYS_IN_MONTH[month]
                                + (IF month = 2 /\ leapyear THEN 1 ELSE 0))
                  ELSE prec0
    IN  IF n1 = 4 \/ n100 = 4
        THEN Date(year - 1, 12, 31)
        ELSE Date(year, month, n - prec + 1)

\* d + timedelta(days = n)
AddDays(d, n) == FromOrdinal(ToOrdinal(d) + n)

\* (a - b).days
DaysBetween(a, b) == ToOrdinal(a) - ToOrdinal(b)

DateLE(a, b) == ToOrdinal(a) <= ToOrdinal(b)

DateLT(a, b) == ToOrdinal(a) < ToOrdinal(b)

----------------------------------------------------------------------------
(* budgets.Budget *)

BUDGET_TYPES == {"monthly", "weekly", "yearly", "custom"}

\* what an assignment to self.end_date in save() yields: the date, or the
\* ValueError date.replace raises
Raised(kind) == [raised |-> kind, end_date |-> NoDate]

Computed(d) == [raised |-> "none", end_date |-> d]

WeeklyEnd(start_date) == Computed(AddDays(start_date, 7))

MonthlyEndNoYearRollover(start_date) ==
    Computed(AddDays(Date(start_date.year, (start_date.month % 12) + 1, 1), -1))

MonthlyEnd(start_date) ==
    IF start_date.month = 12
    THEN Computed(AddDays(Date(start_date.year + 1, 1, 1), -1))
    ELSE Computed(AddDays(Date(start_date.year, start_date.month + 1, 1), -1))

YearlyEnd(start_date) ==
    IF IsValidDate(start_date.year + 1, start_date.month, start_date.day)
    THEN Computed(AddDays(Date(start_date.year + 1, start_date.month,
                               start_date.day), -1))
    ELSE Raised("ValueError")

BudgetSaveAlwaysDerives(self, now) ==
    LET s1 == IF self.start_date = NoDate
              THEN [self EXCEPT !.start_date = now] ELSE self
        e  == IF s1.budget_type = "weekly" THEN WeeklyEnd(s1.start_date)
              ELSE IF s1.budget_type = "monthly" THEN MonthlyEnd(s1.start_date)
              ELSE IF s1.budget_type = "yearly" THEN YearlyEnd(s1.start_date)
              ELSE Computed(s1.end_date)
        s2 == [s1 EXCEPT !.end_date = e.end_date]
    IN  IF e.raised # "none" THEN [outcome |-> e.raised, row |-> s1]
        ELSE IF s2.end_date = NoDate
        THEN [outcome |-> "IntegrityError", row |-> s2]
        ELSE [outcome |-> "saved", row |-> s2]

\* Budget.save on an instance self with the clock at now: the outcome and the
\* row as written.  super().save() fails on the NOT NULL end_date column
\* when end_date is still None.
BudgetSave(self, now) ==
    LET s1 == IF self.start_date = NoDate
              THEN [self EXCEPT !.start_date = now] ELSE self
        e  == IF s1.end_date # NoDate THEN Computed(s1.end_date)
              ELSE IF s1.budget_type = "weekly" THEN WeeklyEnd(s1.start_date)
              ELSE IF s1.budget_type = "monthly" THEN MonthlyEnd(s1.start_date)
              ELSE IF s1.budget_type = "yearly" THEN YearlyEnd(s1.start_date)
              ELSE Computed(NoDate)
        s2 == [s1 EXCEPT !.end_date = e.end_date]
    IN  IF e.raised # "none" THEN [outcome |-> e.raised, row |-> s1]
        ELSE IF s2.end_date = NoDate
        THEN [outcome |-> "IntegrityError", row |-> s2]
        ELSE [outcome |-> "saved", row |-> s2]

\* a Budget instance before its first save (pk None is id 0)
NewBudget(user, budget_type, amount, start_date, end_date) ==
    [id |-> 0, user |-> user, budget_type |-> budget_type, amount |-> amount,
     start_date |-> start_date, end_date |-> end_date,
     is_active |-> TRUE, alert_threshold |-> 80]

----------------------------------------------------------------------------
(* The inputs the model draws from *)

Users == {"alice", "bob"}

Years == {1900, 2000} \cup (2023..(2023 + YearSpan))

AllDates ==
    {Date(y, m, d) : <<y, m, d>> \in
        {t \in Years \X (1..12) \X (1..31) : IsValidDate(t[1], t[2], t[3])}}

\* a caller-supplied end_date, as days after start_date
EndOffsets == {-1, 0, 6, 30}

DefaultToday == Date(2024, 2, 29)

\* the records that carry a counter: a templates.BudgetTemplate
\* (usage_count) and a chatbot.ChatSession (message_count)
CounterRecords == {"BudgetTemplate", "ChatSession"}

NoCounters == [r \in CounterRecords |-> 0]

EmptyTables ==
    /\ categories = {}
    /\ budgets = {}
    /\ allocations = {}
    /\ expenses = {}
    /\ alerts = {}
    /\ nextId = [t \in {"category", "budget", "allocation", "expense", "alert"} |-> 1]
    /\ requests = <<>>
    /\ accounts = {}
    /\ counters = NoCounters

----------------------------------------------------------------------------
(* SpecResolve: Budget.save applied once to an unsaved instance, for every  *)
(* budget type, every start date of Years (or none: the clock's date is     *)
(* taken) and every kind of end_date.                                       *)

EndDatesFor(start_date) ==
    {NoDate} \cup {AddDays(start_date, k) : k \in EndOffsets}

NoCall == [op |-> "none"]

InitResolve ==
    /\ EmptyTables
    /\ today \in {Date(2023, 12, 31), Date(2024, 2, 29)}
    /\ call = NoCall
    /\ resp = [outcome |-> "pending"]

ResolveSave(budget_type, start_date, end_date) ==
    /\ call = NoCall
    /\ call' = [op |-> "Budget.save", budget_type |-> budget_type,
                start_date |-> start_date, end_date |-> end_date]
    /\ resp' = BudgetSave(NewBudget("alice", budget_type, 10000,
                                    start_date, end_date), today)
    /\ UNCHANGED <<categories, budgets, allocations, expenses, alerts, nextId,
                   requests, today,
                   accounts, counters>>

NextResolve ==
    /\ call = NoCall
    /\ \E budget_type \in BUDGET_TYPES :
        \/ \E start_date \in AllDates : \E end_date \in EndDatesFor(start_date) :
                ResolveSave(budget_type, start_date, end_date)
        \/ ResolveSave(budget_type, NoDate, NoDate)

SpecResolve == InitResolve /\ [][NextResolve]_vars

\* the save under SpecResolve was of a budget of this type, and the caller
\* passed no end_date
SavedWithoutEnd(budget_type) ==
    /\ call.op = "Budget.save"
    /\ call.budget_type = budget_type
    /\ call.end_date = NoDate

\* C5: a weekly budget saved without an end_date gets end_date =
\* start_date + 6 days, a period of exactly 7 days inclusive.
WeeklyEndIsStartPlusSix ==
    SavedWithoutEnd("weekly") =>
        /\ resp.outcome = "saved"
        /\ resp.row.end_date = AddDays(resp.row.start_date, 6)
        /\ DaysBetween(resp.row.end_date, resp.row.start_date) + 1 = 7

\* C6: a monthly budget saved without an end_date is saved, and its
\* end_date is the last calendar day of start_date's month (same year and
\* month, day = the number of days of that month), never before start_date.
MonthlyEndIsLastDayOfMonth ==
    SavedWithoutEnd("monthly") =>
        LET s == resp.row.start_date
            e == resp.row.end_date
        IN  /\ resp.outcome = "saved"
            /\ e = Date(s.year, s.month, DaysInMonth(s.year, s.month))
            /\ DateLE(s, e)

\* C6 witness: a monthly budget starting in December was saved without an
\* end_date and ends on 31 December of the same year.
MonthlyDecemberResolved ==
    /\ SavedWithoutEnd("monthly")
    /\ call.start_date.month = 12
    /\ resp.outcome = "saved"
    /\ resp.row.end_date = Date(call.start_date.year, 12, 31)

\* start_date + 1 year: the same day next year; for 29 February, which has
\* no such day, either neighbour
Anniversaries(d) ==
    IF IsValidDate(d.year + 1, d.month, d.day)
    THEN {Date(d.year + 1, d.month, d.day)}
    ELSE {Date(d.year + 1, 2, 28), Date(d.year + 1, 3, 1)}

\* C7: a yearly budget saved without an end_date is resolved without
\* failure, for every start_date (29 February included), to
\* (start_date + 1 year) - 1 day.
YearlyEndResolvedForEveryStart ==
    SavedWithoutEnd("yearly") =>
        /\ resp.outcome = "saved"
        /\ \E a \in Anniversaries(resp.row.start_date) :
                resp.row.end_date = AddDays(a, -1)

\* C8: the save of a custom budget fails when the caller's end_date is
\* missing or earlier than start_date, and otherwise keeps the caller's
\* end_date.
CustomEndValidated ==
    (call.op = "Budget.save" /\ call.budget_type = "custom") =>
        IF \/ call.end_date = NoDate
           \/ DateLT(call.end_date, resp.row.start_date)
        THEN resp.outcome # "saved"
        ELSE resp.outcome = "saved" /\ resp.row.end_date = call.end_date

----------------------------------------------------------------------------
(* SpecBudget: the budgets table under creates, updates and deletes.        *)

\* Budget.objects.create(...) / a create view's form.save(): one save of a
\* new instance, which inserts the row when nothing is raised
CreateBudget(user, budget_type, amount, start_date, end_date) ==
    LET r == BudgetSave(NewBudget(user, budget_type, amount, start_date,
                                  end_date), today)
    IN  /\ nextId["budget"] <= MaxBudgets
        /\ call' = [op |-> "Budget.create", given_end |-> end_date # NoDate]
        /\ resp' = [outcome |-> r.outcome]
        /\ IF r.outcome = "saved"
           THEN /\ budgets' = budgets \cup {[r.row EXCEPT !.id = nextId["budget"]]}
                /\ nextId' = [nextId EXCEPT !["budget"] = @ + 1]
           ELSE UNCHANGED <<budgets, nextId>>
        /\ UNCHANGED <<categories, allocations, expenses, alerts, requests, today,
                       accounts, counters>>

\* BudgetUpdateView / BudgetViewSet.update: the stored instance with the
\* submitted fields assigned (end_date is a required field), then save()
UpdateBudget(b, budget_type, amount, start_date, end_date, is_active) ==
    LET edited == [b EXCEPT !.budget_type = budget_type, !.amount = amount,
                            !.start_date = start_date, !.end_date = end_date,
                            !.is_active = is_active]
        r == BudgetSave(edited, today)
    IN  /\ b \in budgets
        /\ end_date # NoDate
        /\ edited # b
        /\ call' = [op |-> "Budget.update", given_end |-> TRUE, id |-> b.id,
                    kept_end |-> end_date = b.end_date]
        /\ resp' = [outcome |-> r.outcome]
        /\ budgets' = IF r.outcome = "saved"
                      THEN (budgets \ {b}) \cup {r.row} ELSE budgets
        /\ UNCHANGED <<categories, allocations, expenses, alerts, nextId,
                       requests, today,
                       accounts, counters>>

\* BudgetDeleteView / BudgetViewSet.destroy: the row goes, and with it
\* (on_delete = CASCADE) its allocations and its alerts
DeleteBudget(b) ==
    /\ b \in budgets
    /\ call' = [op |-> "Budget.delete", given_end |-> FALSE, id |-> b.id]
    /\ resp' = [outcome |-> "deleted"]
    /\ budgets' = budgets \ {b}
    /\ allocations' = {a \in allocations : a.budget # b.id}
    /\ alerts' = {a \in alerts : a.budget # b.id}
    /\ UNCHANGED <<categories, expenses, nextId, requests, today,
                   accounts, counters>>

StoreStartDates == {Date(2024, 2, 29), Date(2024, 12, 31)}

StoreEndOffsets == {-1, 30}

StoreEndDatesFor(start_date) ==
    {NoDate} \cup {AddDays(start_date, k) : k \in StoreEndOffsets}

InitBudget ==
    /\ EmptyTables
    /\ today = DefaultToday
    /\ call = NoCall
    /\ resp = [outcome |-> "pending"]

NextBudget ==
    \/ \E budget_type \in BUDGET_TYPES, start_date \in StoreStartDates :
         \E end_date \in StoreEndDatesFor(start_date) :
            CreateBudget("alice", budget_type, 10000, start_date, end_date)
    \/ \E b \in budgets, budget_type \in BUDGET_TYPES,
          start_date \in StoreStartDates :
         \E end_date \in StoreEndDatesFor(start_date) :
            UpdateBudget(b, budget_type, b.amount, start_date, end_date,
                         b.is_active)
    \/ \E b \in budgets : DeleteBudget(b)

SpecBudget == InitBudget /\ [][NextBudget]_vars

\* C9: every stored budget has end_date >= start_date.
StoredPeriodsOrdered ==
    \A b \in budgets : DateLE(b.start_date, b.end_date)

\* C10: any two stored budgets of the same non-custom type and the same
\* start_date have the same end_date.
EndDeterminedByStartAndType ==
    \A b1 \in budgets, b2 \in budgets :
        (/\ b1.budget_type # "custom"
         /\ b1.budget_type = b2.budget_type
         /\ b1.start_date = b2.start_date) => b1.end_date = b2.end_date

----------------------------------------------------------------------------
(* SpecBudgetLife: one budget at a time, created and then edited in any of  *)
(* its fields, the end_date among them or not.                              *)

BudgetAmounts == {10000, 20000}

NextBudgetLife ==
    \/ /\ budgets = {}
       /\ \E budget_type \in BUDGET_TYPES, start_date \in StoreStartDates :
            \E end_date \in StoreEndDatesFor(start_date) :
               CreateBudget("alice", budget_type, 10000, start_date, end_date)
    \/ \E b \in budgets, budget_type \in BUDGET_TYPES,
          start_date \in StoreStartDates, amount \in BudgetAmounts,
          is_active \in BOOLEAN :
         \E end_date \in StoreEndDatesFor(start_date) \cup {b.end_date} :
            UpdateBudget(b, budget_type, amount, start_date, end_date, is_active)
    \/ \E b \in budgets : DeleteBudget(b)

SpecBudgetLife == InitBudget /\ [][NextBudgetLife]_vars

\* C11: a save of a stored budget whose caller does not submit another
\* end_date leaves the stored end_date as it was, whatever else (start_date,
\* budget_type, amount, is_active) the caller changed.
EndDateNeverRecomputed ==
    [][(call'.op = "Budget.update" /\ call'.kept_end) =>
        \A b \in budgets, b2 \in budgets' :
            (b.id = call'.id /\ b2.id = b.id) => b2.end_date = b.end_date]_vars

\* C11 witness: a monthly budget was saved again with its end_date kept, and
\* its end_date is not the one save() derives from its start_date now.
EditedBudgetKeepsOldEnd ==
    /\ call.op = "Budget.update"
    /\ call.kept_end
    /\ resp.outcome = "saved"
    /\ \E b \in budgets :
          /\ b.id = call.id
          /\ b.budget_type = "monthly"
          /\ b.end_date # MonthlyEnd(b.start_date).end_date

----------------------------------------------------------------------------
(* categories.Category and its serializers and views *)

RECURSIVE SumPercentage(_)
SumPercentage(rows) ==
    IF rows = {} THEN 0
    ELSE LET r == CHOOSE x \in rows : TRUE
         IN  r.budget_percentage + SumPercentage(rows \ {r})

\* the aggregate of CategorySerializer.validate: the user's active
\* categories other than the instance being edited (pk 0: no instance)
ExistingPercentage(user, instance_pk) ==
    SumPercentage({c \in categories :
                      c.user = user /\ c.is_active /\ c.id # instance_pk})

\* CategorySerializer.validate(attrs): FALSE is the ValidationError
CategorySerializerValidate(attrs, user, instance_pk) ==
    "budget_percentage" \in DOMAIN attrs =>
        ~(ExistingPercentage(user, instance_pk) + attrs.budget_percentage > 100)

\* CategoryListView.get_serializer_class
ListViewSerializerClass(method) ==
    IF method = "POST" THEN "CategoryCreateSerializer" ELSE "CategorySerializer"

\* CategoryDetailView.get_serializer_class
DetailViewSerializerClass(method) ==
    IF method \in {"PUT", "PATCH"} THEN "CategoryUpdateSerializer"
    ELSE "CategorySerializer"

\* the validators of the model field budget_percentage, which a
\* ModelSerializer runs for the field when it is submitted
PercentageFieldValid(attrs) ==
    "budget_percentage" \in DOMAIN attrs =>
        attrs.budget_percentage >= 0 /\ attrs.budget_percentage <= 100

\* serializer.is_valid() for the serializer class the view picked: only
\* CategorySerializer defines validate()
SerializerIsValid(class, attrs, user, instance_pk) ==
    /\ PercentageFieldValid(attrs)
    /\ class = "CategorySerializer" =>
            CategorySerializerValidate(attrs, user, instance_pk)

\* unique_together = ['name', 'user'], enforced by the database
NameTaken(rows, user, name, instance_pk) ==
    \E c \in rows : c.user = user /\ c.name = name /\ c.id # instance_pk

\* the fields of attrs assigned onto a row (setattr for each submitted field)
Assigned(c, attrs) ==
    [f \in DOMAIN c |-> IF f \in DOMAIN attrs THEN attrs[f] ELSE c[f]]

\* POST /api/categories/ : CategoryListView.create with the serializer of
\* get_serializer_class, then CategoryCreateSerializer.create
CreateCategory(user, attrs) ==
    LET class == ListViewSerializerClass("POST")
        row == Assigned([id |-> nextId["category"], user |-> user,
                         name |-> "", budget_percentage |-> 0,
                         is_active |-> TRUE], attrs)
    IN  /\ nextId["category"] <= MaxCategories
        /\ "name" \in DOMAIN attrs
        /\ "is_active" \notin DOMAIN attrs
        /\ call' = [op |-> "Category.create"]
        /\ IF ~SerializerIsValid(class, attrs, user, 0)
           THEN resp' = [outcome |-> "400"] /\ UNCHANGED <<categories, nextId>>
           ELSE IF NameTaken(categories, user, row.name, 0)
           THEN resp' = [outcome |-> "IntegrityError"]
                /\ UNCHANGED <<categories, nextId>>
           ELSE /\ resp' = [outcome |-> "201"]
                /\ categories' = categories \cup {row}
                /\ nextId' = [nextId EXCEPT !["category"] = @ + 1]
        /\ UNCHANGED <<budgets, allocations, expenses, alerts, requests, today,
                       accounts, counters>>

\* PUT / PATCH /api/categories/<pk>/ : CategoryDetailView.update
UpdateCategory(user, c, method, attrs) ==
    LET class == DetailViewSerializerClass(method)
        row == Assigned(c, attrs)
    IN  /\ c \in categories /\ c.user = user
        /\ method \in {"PUT", "PATCH"}
        /\ method = "PUT" => "name" \in DOMAIN attrs
        /\ call' = [op |-> "Category.update"]
        /\ IF ~SerializerIsValid(class, attrs, user, c.id)
           THEN resp' = [outcome |-> "400"] /\ UNCHANGED categories
           ELSE IF NameTaken(categories, user, row.name, c.id)
           THEN resp' = [outcome |-> "IntegrityError"] /\ UNCHANGED categories
           ELSE /\ resp' = [outcome |-> "200"]
                /\ categories' = (categories \ {c}) \cup {row}
        /\ UNCHANGED <<budgets, allocations, expenses, alerts, nextId,
                       requests, today,
                       accounts, counters>>

\* DELETE /api/categories/<pk>/ : the row goes, and (CASCADE) its expenses
\* and allocations
DeleteCategory(user, c) ==
    /\ c \in categories /\ c.user = user
    /\ call' = [op |-> "Category.delete"]
    /\ resp' = [outcome |-> "204"]
    /\ categories' = categories \ {c}
    /\ expenses' = {e \in expenses : e.category # c.id}
    /\ allocations' = {a \in allocations : a.category # c.id}
    /\ UNCHANGED <<budgets, alerts, nextId, requests, today,
                   accounts, counters>>

\* CategoryBulkUpdateSerializer.update: each entry in turn; an unknown id
\* is skipped, every other entry is assigned and saved unvalidated.  The
\* result is the table after the loop, the number of rows updated and
\* whether a save raised (the rows saved before it stay saved).
RECURSIVE BulkUpdateLoop(_, _, _, _)
BulkUpdateLoop(rows, user, entries, updated) ==
    IF entries = <<>> THEN [rows |-> rows, updated |-> updated, raised |-> FALSE]
    ELSE LET category_data == Head(entries)
             found == {c \in rows : c.id = category_data.id /\ c.user = user}
         IN  IF found = {}
             THEN BulkUpdateLoop(rows, user, Tail(entries), updated)
             ELSE LET c == CHOOSE x \in found : TRUE
                      fields == [f \in DOMAIN category_data \ {"id"} |->
                                    category_data[f]]
                      row == Assigned(c, fields)
                  IN  IF NameTaken(rows, user, row.name, c.id)
                      THEN [rows |-> rows, updated |-> updated, raised |-> TRUE]
                      ELSE BulkUpdateLoop((rows \ {c}) \cup {row}, user,
                                          Tail(entries), updated + 1)

\* CategoryBulkUpdateSerializer.validate_categories
BulkIsValid(entries) == \A i \in DOMAIN entries : "id" \in DOMAIN entries[i]

\* POST /api/categories/bulk-update/ : CategoryBulkUpdateView.post
BulkUpdateCategories(user, entries) ==
    LET r == BulkUpdateLoop(categories, user, entries, 0)
    IN  /\ categories # {}
        /\ call' = [op |-> "Category.bulk_update"]
        /\ IF ~BulkIsValid(entries)
           THEN resp' = [outcome |-> "400"] /\ UNCHANGED categories
           ELSE /\ resp' = [outcome |-> IF r.raised THEN "IntegrityError" ELSE "200"]
                /\ categories' = r.rows
        /\ UNCHANGED <<budgets, allocations, expenses, alerts, nextId,
                       requests, today,
                       accounts, counters>>

\* POST /api/categories/<pk>/duplicate/ : duplicate_category
DuplicateCategory(user, c) ==
    LET duplicate == [id |-> nextId["category"], user |-> user,
                      name |-> c.name \o " (Copy)", budget_percentage |-> 0,
                      is_active |-> TRUE]
    IN  /\ c \in categories /\ c.user = user
        /\ nextId["category"] <= MaxCategories
        /\ call' = [op |-> "Category.duplicate"]
        /\ IF NameTaken(categories, user, duplicate.name, 0)
           THEN resp' = [outcome |-> "500"] /\ UNCHANGED <<categories, nextId>>
           ELSE /\ resp' = [outcome |-> "201"]
                /\ categories' = categories \cup {duplicate}
                /\ nextId' = [nextId EXCEPT !["category"] = @ + 1]
        /\ UNCHANGED <<budgets, allocations, expenses, alerts, requests, today,
                       accounts, counters>>

----------------------------------------------------------------------------
(* SpecCategory: the category operations of the API *)

Names == {"Food", "Rent"}

\* 101 is refused by the field's MaxValueValidator
Percentages == {0, 60, 101}

\* the submitted fields of a create: a name, with or without a percentage
CreateAttrs ==
    {[name |-> n] : n \in Names}
    \cup {[name |-> n, budget_percentage |-> p] : n \in Names, p \in Percentages}

\* the submitted fields of a partial update
PatchAttrs ==
    {[budget_percentage |-> p] : p \in Percentages}
    \cup {[is_active |-> a] : a \in BOOLEAN}
    \cup {[name |-> n] : n \in Names}

\* the submitted fields of a full update
PutAttrs ==
    {[name |-> n, budget_percentage |-> p, is_active |-> a] :
        n \in Names, p \in Percentages, a \in BOOLEAN}

\* one entry of a bulk update: a percentage for a category (the last id is
\* of no category), a deactivation, or an entry without an id
BulkEntries ==
    {[id |-> i, budget_percentage |-> 60] : i \in 1..(MaxCategories + 1)}
    \cup {[id |-> 1, is_active |-> FALSE], [budget_percentage |-> 60]}

\* the lists a bulk update carries: one entry, or a percentage for each of
\* the categories 1..n
BulkLists ==
    {<<e>> : e \in BulkEntries}
    \cup {[i \in 1..n |-> [id |-> i, budget_percentage |-> 60]] : n \in 2..MaxBulk}

InitCategory ==
    /\ EmptyTables
    /\ today = DefaultToday
    /\ call = NoCall
    /\ resp = [outcome |-> "pending"]

NextCategory ==
    \E user \in Users :
        \/ \E attrs \in CreateAttrs : CreateCategory(user, attrs)
        \/ \E c \in categories :
              \/ \E attrs \in PatchAttrs : UpdateCategory(user, c, "PATCH", attrs)
              \/ \E attrs \in PutAttrs : UpdateCategory(user, c, "PUT", attrs)
              \/ DeleteCategory(user, c)
              \/ DuplicateCategory(user, c)
        \/ \E entries \in BulkLists : BulkUpdateCategories(user, entries)

SpecCategory == InitCategory /\ [][NextCategory]_vars

\* C1: for every user the budget_percentage of the user's active
\* categories sums to at most 100.
ActivePercentageWithinCeiling ==
    \A user \in Users : ExistingPercentage(user, 0) <= 100

----------------------------------------------------------------------------
(* budgets.BudgetCategory and BudgetCategoryViewSet *)

BudgetById(id) == CHOOSE b \in budgets : b.id = id

\* allocated_amount as a share of its budget's amount, in hundredths of a
\* percent
ImpliedPercentage(amount, budget_id) ==
    (amount * 10000) \div BudgetById(budget_id).amount

RECURSIVE SumAllocationPercentage(_)
SumAllocationPercentage(rows) ==
    IF rows = {} THEN 0
    ELSE LET a == CHOOSE x \in rows : TRUE
         IN  ImpliedPercentage(a.allocated_amount, a.budget)
             + SumAllocationPercentage(rows \ {a})

\* the allocations of a category in the active budgets of a user, as rows
\* of the table given, leaving out the row of primary key instance_pk
ActiveAllocations(rows, category_id, user, instance_pk) ==
    {a \in rows :
        /\ a.category = category_id
        /\ a.id # instance_pk
        /\ \E b \in budgets : b.id = a.budget /\ b.user = user /\ b.is_active}

\* the validators of the model field allocated_amount: MinValueValidator(0.01)
AllocatedAmountValid(amount) == amount >= 1

PairTakenNever(rows, budget_id, category_id, instance_pk) == FALSE

\* unique_together = ['budget', 'category']
PairTaken(rows, budget_id, category_id, instance_pk) ==
    \E a \in rows :
        a.budget = budget_id /\ a.category = category_id /\ a.id # instance_pk

\* BudgetCategorySerializer.is_valid(): the related rows exist, the field
\* validators, and the serializer's UniqueTogetherValidator
AllocationIsValid(rows, budget_id, category_id, amount, instance_pk) ==
    /\ \E b \in budgets : b.id = budget_id
    /\ \E c \in categories : c.id = category_id
    /\ AllocatedAmountValid(amount)
    /\ ~PairTaken(rows, budget_id, category_id, instance_pk)

\* BudgetCategoryViewSet.create, start to end
CreateAllocation(budget_id, category_id, amount) ==
    /\ nextId["allocation"] <= MaxAllocations
    /\ call' = [op |-> "BudgetCategory.create", budget |-> budget_id,
                category |-> category_id, amount |-> amount]
    /\ IF AllocationIsValid(allocations, budget_id, category_id, amount, 0)
       THEN /\ resp' = [outcome |-> "201"]
            /\ allocations' = allocations \cup
                    {[id |-> nextId["allocation"], budget |-> budget_id,
                      category |-> category_id, allocated_amount |-> amount]}
            /\ nextId' = [nextId EXCEPT !["allocation"] = @ + 1]
       ELSE resp' = [outcome |-> "400"] /\ UNCHANGED <<allocations, nextId>>
    /\ UNCHANGED <<categories, budgets, expenses, alerts, requests, today,
                   accounts, counters>>

\* BudgetCategoryViewSet.partial_update of allocated_amount
UpdateAllocation(a, amount) ==
    /\ a \in allocations
    /\ amount # a.allocated_amount
    /\ call' = [op |-> "BudgetCategory.update", budget |-> a.budget,
                category |-> a.category, amount |-> amount]
    /\ IF AllocationIsValid(allocations, a.budget, a.category, amount, a.id)
       THEN /\ resp' = [outcome |-> "200"]
            /\ allocations' = (allocations \ {a})
                              \cup {[a EXCEPT !.allocated_amount = amount]}
       ELSE resp' = [outcome |-> "400"] /\ UNCHANGED allocations
    /\ UNCHANGED <<categories, budgets, expenses, alerts, nextId, requests, today,
                   accounts, counters>>

\* BudgetCategoryViewSet.partial_update of category
ReassignAllocation(a, category_id) ==
    /\ a \in allocations
    /\ category_id # a.category
    /\ call' = [op |-> "BudgetCategory.update", budget |-> a.budget,
                category |-> category_id, amount |-> a.allocated_amount]
    /\ IF AllocationIsValid(allocations, a.budget, category_id,
                            a.allocated_amount, a.id)
       THEN /\ resp' = [outcome |-> "200"]
            /\ allocations' = (allocations \ {a})
                              \cup {[a EXCEPT !.category = category_id]}
       ELSE resp' = [outcome |-> "400"] /\ UNCHANGED allocations
    /\ UNCHANGED <<categories, budgets, expenses, alerts, nextId, requests, today,
                   accounts, counters>>

\* BudgetCategoryViewSet.destroy
DeleteAllocation(a) ==
    /\ a \in allocations
    /\ call' = [op |-> "BudgetCategory.delete", budget |-> a.budget,
                category |-> a.category, amount |-> a.allocated_amount]
    /\ resp' = [outcome |-> "204"]
    /\ allocations' = allocations \ {a}
    /\ UNCHANGED <<categories, budgets, expenses, alerts, nextId, requests, today,
                   accounts, counters>>

----------------------------------------------------------------------------
(* SpecAlloc: allocation requests, one at a time, of one user who has a     *)
(* category and three active budgets.                                      *)

\* a saved budget row: a custom period with both dates given
BudgetRow(id, user, amount, start_date, end_date, is_active) ==
    [NewBudget(user, "custom", amount, start_date, end_date)
        EXCEPT !.id = id, !.is_active = is_active]

CategoryRow(id, user, name, percentage) ==
    [id |-> id, user |-> user, name |-> name,
     budget_percentage |-> percentage, is_active |-> TRUE]

January == [start |-> Date(2024, 1, 1), end |-> Date(2024, 1, 31)]

\* 0.00, 10.00, 15.00 and 90.00
AllocationAmounts == {0, 1000, 1500, 9000}

InitAlloc ==
    /\ categories = {CategoryRow(1, "alice", "Food", 0)}
    /\ budgets = {BudgetRow(1, "alice", 10000, January.start, January.end, TRUE),
                  BudgetRow(2, "alice", 10000, January.start, January.end, TRUE),
                  BudgetRow(3, "alice", 20000, January.start, January.end, TRUE)}
    /\ allocations = {}
    /\ expenses = {}
    /\ alerts = {}
    /\ nextId = [t \in {"category", "budget", "allocation", "expense", "alert"} |->
                    IF t = "category" THEN 2 ELSE IF t = "budget" THEN 4 ELSE 1]
    /\ requests = <<>>
    /\ accounts = {}
    /\ counters = NoCounters
    /\ today = DefaultToday
    /\ call = NoCall
    /\ resp = [outcome |-> "pending"]

NextAlloc ==
    \/ \E b \in budgets, c \in categories, amount \in AllocationAmounts :
            CreateAllocation(b.id, c.id, amount)
    \/ \E a \in allocations, amount \in AllocationAmounts :
            UpdateAllocation(a, amount)
    \/ \E a \in allocations : DeleteAllocation(a)

SpecAlloc == InitAlloc /\ [][NextAlloc]_vars

\* the percentage of a category already allocated in the active budgets of
\* the owner of budget_id, in the table as it is before the request
ExistingAllocationPercentage(category_id, budget_id) ==
    SumAllocationPercentage(
        ActiveAllocations(allocations, category_id, BudgetById(budget_id).user, 0))

\* C2: an allocation request is refused as AllocationExceeded exactly when
\* the category's existing percentage plus the percentage the amount
\* implies is above 100; a valid request at or under 100 is created.
AllocationCeilingEnforced ==
    [][call'.op = "BudgetCategory.create" =>
        LET total == ExistingAllocationPercentage(call'.category, call'.budget)
                     + ImpliedPercentage(call'.amount, call'.budget)
        IN  /\ resp'.outcome = "AllocationExceeded" <=> total > 10000
            /\ (/\ total <= 10000
                /\ AllocationIsValid(allocations, call'.budget,
                                     call'.category, call'.amount, 0))
               => resp'.outcome = "201"]_vars

----------------------------------------------------------------------------
(* SpecAllocRace: NumWorkers allocation requests of one user handled        *)
(* concurrently.  A request is two steps against the shared table, with no  *)
(* transaction or lock around them: serializer.is_valid(), then             *)
(* perform_create's INSERT.                                                 *)

Workers == 1..NumWorkers

ReceivedRequests ==
    {[pc |-> "received", budget |-> b, category |-> 1, amount |-> amount,
      outcome |-> "pending"] : b \in 1..3, amount \in AllocationAmounts}

InitAllocRace ==
    /\ categories = {CategoryRow(1, "alice", "Food", 0)}
    /\ budgets = {BudgetRow(1, "alice", 10000, January.start, January.end, TRUE),
                  BudgetRow(2, "alice", 10000, January.start, January.end, TRUE),
                  BudgetRow(3, "alice", 20000, January.start, January.end, TRUE)}
    /\ allocations = {}
    /\ expenses = {}
    /\ alerts = {}
    /\ nextId = [t \in {"category", "budget", "allocation", "expense", "alert"} |->
                    IF t = "category" THEN 2 ELSE IF t = "budget" THEN 4 ELSE 1]
    /\ requests \in [Workers -> ReceivedRequests]
    /\ accounts = {}
    /\ counters = NoCounters
    /\ today = DefaultToday
    /\ call = NoCall
    /\ resp = [outcome |-> "pending"]

\* serializer.is_valid(raise_exception=True) of the request of worker w
ValidateRequest(w) ==
    LET r == requests[w]
    IN  /\ r.pc = "received"
        /\ requests' = [requests EXCEPT ![w] =
                IF AllocationIsValid(allocations, r.budget, r.category,
                                     r.amount, 0)
                THEN [r EXCEPT !.pc = "validated"]
                ELSE [r EXCEPT !.pc = "done", !.outcome = "400"]]
        /\ UNCHANGED <<categories, budgets, allocations, expenses, alerts,
                       nextId, today, call, resp,
                       accounts, counters>>

\* perform_create: serializer.save(), the INSERT, which the unique index on
\* (budget, category) may refuse
SaveRequest(w) ==
    LET r == requests[w]
    IN  /\ r.pc = "validated"
        /\ IF PairTaken(allocations, r.budget, r.category, 0)
           THEN /\ requests' = [requests EXCEPT ![w] =
                        [r EXCEPT !.pc = "done", !.outcome = "IntegrityError"]]
                /\ UNCHANGED <<allocations, nextId>>
           ELSE /\ requests' = [requests EXCEPT ![w] =
                        [r EXCEPT !.pc = "done", !.outcome = "201"]]
                /\ allocations' = allocations \cup
                        {[id |-> nextId["allocation"], budget |-> r.budget,
                          category |-> r.category,
                          allocated_amount |-> r.amount]}
                /\ nextId' = [nextId EXCEPT !["allocation"] = @ + 1]
        /\ UNCHANGED <<categories, budgets, expenses, alerts, today, call, resp,
                       accounts, counters>>

NextAllocRace ==
    \E w \in Workers : ValidateRequest(w) \/ SaveRequest(w)

SpecAllocRace == InitAllocRace /\ [][NextAllocRace]_vars

\* C3: when the concurrent requests have all passed their check and
\* written, no category's allocations in the user's active budgets add up
\* to more than 100%.
NoOvershootByConcurrentRequests ==
    (\A w \in Workers : requests[w].pc = "done" /\ requests[w].outcome = "201")
        => \A c \in categories :
               SumAllocationPercentage(
                   ActiveAllocations(allocations, c.id, c.user, 0)) <= 10000

----------------------------------------------------------------------------
(* The ledger properties of budgets.Budget, over a given expenses table *)

RECURSIVE SumAmount(_)
SumAmount(rows) ==
    IF rows = {} THEN 0
    ELSE LET r == CHOOSE x \in rows : TRUE
         IN  r.amount + SumAmount(rows \ {r})

\* a value of a property: a Decimal or a float (in cents), or the TypeError
\* raised by arithmetic that mixes the two
Decimal(v) == [kind |-> "Decimal", value |-> v]

Float(v) == [kind |-> "float", value |-> v]

\* the TypeError of an arithmetic operation between a Decimal and a float
TypeError == [kind |-> "TypeError", value |-> 0]

Bool(v) == [kind |-> "bool", value |-> v]

\* a quotient num / den (den > 0) kept exact
Ratio(kind, num, den) == [kind |-> kind, num |-> num, den |-> den]

TotalExpensesEndExclusive(b, rows) ==
    LET total == SumAmount({e \in rows :
                    /\ e.user = b.user
                    /\ DateLE(b.start_date, e.date)
                    /\ DateLT(e.date, b.end_date)})
    IN  IF total = 0 THEN Float(0) ELSE Decimal(total)

\* Budget.total_expenses: the Sum aggregate, or the float 0.00 when the
\* aggregate is None or zero
TotalExpenses(b, rows) ==
    LET total == SumAmount({e \in rows :
                    /\ e.user = b.user
                    /\ DateLE(b.start_date, e.date)
                    /\ DateLE(e.date, b.end_date)})
    IN  IF total = 0 THEN Float(0) ELSE Decimal(total)

\* Budget.remaining_amount: Decimal - Decimal, and Decimal - float raises
RemainingAmount(b, rows) ==
    LET total == TotalExpenses(b, rows)
    IN  IF total.kind = "float" THEN TypeError
        ELSE Decimal(b.amount - total.value)

\* Budget.usage_percentage: (total_expenses / amount) * 100 for amount > 0,
\* where float / Decimal raises; the float 0.00 otherwise
UsagePercentage(b, rows) ==
    LET total == TotalExpenses(b, rows)
    IN  IF b.amount > 0
        THEN IF total.kind = "float" THEN TypeError
             ELSE Ratio("Decimal", total.value * 100, b.amount)
        ELSE Ratio("float", 0, 1)

IsOverBudgetOrEqual(b, rows) == TotalExpenses(b, rows).value >= b.amount

\* Budget.is_over_budget (a float compares with a Decimal)
IsOverBudget(b, rows) == TotalExpenses(b, rows).value > b.amount

\* Budget.is_near_limit as evaluated: usage_percentage >= alert_threshold,
\* or the TypeError that usage_percentage raised
NearLimit(b, rows) ==
    LET usage == UsagePercentage(b, rows)
    IN  IF usage.kind = "TypeError" THEN TypeError
        ELSE Bool(usage.num >= b.alert_threshold * usage.den)

\* Budget.is_near_limit returned True
IsNearLimit(b, rows) == NearLimit(b, rows) = Bool(TRUE)

DaysRemainingUnclamped(b, now) == DaysBetween(b.end_date, now)

\* Budget.days_remaining with timezone.now().date() = now
DaysRemaining(b, now) ==
    IF DateLT(b.end_date, now) THEN 0 ELSE DaysBetween(b.end_date, now)

ProgressPercentageUnclamped(b, now) ==
    LET total_days == DaysBetween(b.end_date, b.start_date)
        days_elapsed == DaysBetween(now, b.start_date)
    IN  IF total_days <= 0 THEN Ratio("int", 100, 1)
        ELSE Ratio("float", days_elapsed * 100, total_days)

\* Budget.progress_percentage with timezone.now().date() = now:
\* min(100, max(0, (days_elapsed / total_days) * 100))
ProgressPercentage(b, now) ==
    LET total_days == DaysBetween(b.end_date, b.start_date)
        days_elapsed == DaysBetween(now, b.start_date)
    IN  IF total_days <= 0 THEN Ratio("int", 100, 1)
        ELSE IF days_elapsed * 100 <= 0 THEN Ratio("int", 0, 1)
        ELSE IF days_elapsed * 100 >= 100 * total_days THEN Ratio("int", 100, 1)
        ELSE Ratio("float", days_elapsed * 100, total_days)

----------------------------------------------------------------------------
(* expenses.Expense through ExpenseViewSet, budgets.BudgetAlert through     *)
(* BudgetAlertViewSet                                                       *)

\* ExpenseViewSet.create: ExpenseSerializer.create assigns the request's user
CreateExpense(user, category_id, amount, date) ==
    /\ nextId["expense"] <= MaxExpenses
    /\ call' = [op |-> "Expense.create"]
    /\ IF amount >= 1 /\ \E c \in categories : c.id = category_id
       THEN /\ resp' = [outcome |-> "201"]
            /\ expenses' = expenses \cup
                    {[id |-> nextId["expense"], user |-> user,
                      category |-> category_id, amount |-> amount,
                      date |-> date]}
            /\ nextId' = [nextId EXCEPT !["expense"] = @ + 1]
       ELSE resp' = [outcome |-> "400"] /\ UNCHANGED <<expenses, nextId>>
    /\ UNCHANGED <<categories, budgets, allocations, alerts, requests, today,
                   accounts, counters>>

DeleteExpenseDroppingAlerts(e) ==
    /\ e \in expenses
    /\ call' = [op |-> "Expense.delete"]
    /\ resp' = [outcome |-> "204"]
    /\ expenses' = expenses \ {e}
    /\ alerts' = {a \in alerts :
            LET b == BudgetById(a.budget)
            IN  IsOverBudget(b, expenses') \/ IsNearLimit(b, expenses')}
    /\ UNCHANGED <<categories, budgets, allocations, nextId, requests,
                   today,
                   accounts, counters>>

\* ExpenseViewSet.destroy
DeleteExpense(e) ==
    /\ e \in expenses
    /\ call' = [op |-> "Expense.delete"]
    /\ resp' = [outcome |-> "204"]
    /\ expenses' = expenses \ {e}
    /\ UNCHANGED <<categories, budgets, allocations, alerts, nextId, requests,
                   today,
                   accounts, counters>>

ALERT_TYPES == {"threshold", "over_budget", "near_limit", "period_ending"}

\* BudgetAlertViewSet.create: a row with the submitted budget, user and type
CreateAlert(user, budget_id, alert_type) ==
    /\ nextId["alert"] <= MaxAlerts
    /\ call' = [op |-> "BudgetAlert.create"]
    /\ IF alert_type \in ALERT_TYPES /\ \E b \in budgets : b.id = budget_id
       THEN /\ resp' = [outcome |-> "201"]
            /\ alerts' = alerts \cup
                    {[id |-> nextId["alert"], budget |-> budget_id,
                      user |-> user, alert_type |-> alert_type,
                      is_read |-> FALSE, is_dismissed |-> FALSE,
                      read_at |-> NoDate]}
            /\ nextId' = [nextId EXCEPT !["alert"] = @ + 1]
       ELSE resp' = [outcome |-> "400"] /\ UNCHANGED <<alerts, nextId>>
    /\ UNCHANGED <<categories, budgets, allocations, expenses, requests, today,
                   accounts, counters>>

\* BudgetAlertViewSet.destroy
DeleteAlert(a) ==
    /\ a \in alerts
    /\ call' = [op |-> "BudgetAlert.delete", id |-> a.id]
    /\ resp' = [outcome |-> "204"]
    /\ alerts' = alerts \ {a}
    /\ UNCHANGED <<categories, budgets, allocations, expenses, nextId,
                   requests, today,
                   accounts, counters>>

\* BudgetAlert.mark_as_read with timezone.now() on the day today
MarkAsRead(a) ==
    /\ a \in alerts
    /\ call' = [op |-> "BudgetAlert.mark_as_read", id |-> a.id]
    /\ resp' = [outcome |-> "saved"]
    /\ alerts' = (alerts \ {a})
                  \cup {[a EXCEPT !.is_read = TRUE, !.read_at = today]}
    /\ UNCHANGED <<categories, budgets, allocations, expenses, nextId,
                   requests, today,
                   accounts, counters>>

\* BudgetAlert.dismiss
Dismiss(a) ==
    /\ a \in alerts
    /\ call' = [op |-> "BudgetAlert.dismiss", id |-> a.id]
    /\ resp' = [outcome |-> "saved"]
    /\ alerts' = (alerts \ {a}) \cup {[a EXCEPT !.is_dismissed = TRUE]}
    /\ UNCHANGED <<categories, budgets, allocations, expenses, nextId,
                   requests, today,
                   accounts, counters>>

\* the clock moves on by a day
Tick ==
    /\ DaysBetween(today, DefaultToday) < MaxTicks
    /\ today' = AddDays(today, 1)
    /\ call' = [op |-> "tick"]
    /\ resp' = [outcome |-> "none"]
    /\ UNCHANGED <<categories, budgets, allocations, expenses, alerts, nextId,
                   requests,
                   accounts, counters>>

\* the properties of a stored budget, evaluated with the clock at today
ReadLedger(b) ==
    /\ b \in budgets
    /\ call' = [op |-> "Budget.ledger", id |-> b.id]
    /\ resp' = [outcome |-> "read",
                total_expenses |-> TotalExpenses(b, expenses),
                remaining_amount |-> RemainingAmount(b, expenses),
                usage_percentage |-> UsagePercentage(b, expenses),
                is_over_budget |-> IsOverBudget(b, expenses),
                is_near_limit |-> NearLimit(b, expenses),
                days_remaining |-> DaysRemaining(b, today),
                progress_percentage |-> ProgressPercentage(b, today)]
    /\ UNCHANGED <<categories, budgets, allocations, expenses, alerts, nextId,
                   requests, today,
                   accounts, counters>>

----------------------------------------------------------------------------
(* SpecAlert: a budget of 100.00 for February 2024 with the default         *)
(* threshold of 80%, its owner's expenses, and the alerts table.            *)

ExpenseAmounts == {0, 5000, 9000}

ExpenseDates == {Date(2024, 2, 29), Date(2024, 3, 1)}

InitAlert ==
    /\ categories = {CategoryRow(1, "alice", "Food", 0)}
    /\ budgets = {[NewBudget("alice", "monthly", 10000, Date(2024, 2, 1),
                             Date(2024, 2, 29)) EXCEPT !.id = 1]}
    /\ allocations = {}
    /\ expenses = {}
    /\ alerts = {}
    /\ nextId = [t \in {"category", "budget", "allocation", "expense", "alert"} |->
                    IF t \in {"category", "budget"} THEN 2 ELSE 1]
    /\ requests = <<>>
    /\ accounts = {}
    /\ counters = NoCounters
    /\ today = DefaultToday
    /\ call = NoCall
    /\ resp = [outcome |-> "pending"]

NextAlert ==
    \/ \E amount \in ExpenseAmounts, date \in ExpenseDates :
            CreateExpense("alice", 1, amount, date)
    \/ \E e \in expenses : DeleteExpense(e)
    \/ \E alert_type \in {"over_budget", "near_limit", "other"} :
            CreateAlert("alice", 1, alert_type)
    \/ \E a \in alerts : DeleteAlert(a)
    \/ Tick

SpecAlert == InitAlert /\ [][NextAlert]_vars

\* the state of a budget the alerts are about: over_budget, else
\* near_limit, else normal
LedgerState(b, rows) ==
    IF IsOverBudget(b, rows) THEN "over_budget"
    ELSE IF IsNearLimit(b, rows) THEN "near_limit"
    ELSE "normal"

AlertsOf(rows, b, alert_type) ==
    {a \in rows : a.budget = b.id /\ a.alert_type = alert_type}

\* C4: a step that takes a budget into near_limit or over_budget from
\* another state adds exactly one alert of that type for the budget, and a
\* step that leaves the budget in its state adds none.
OneAlertPerEntry ==
    [][\A b \in budgets \cap budgets' :
        LET before == LedgerState(b, expenses)
            after == LedgerState(b, expenses')
        IN  /\ (after # before /\ after # "normal") =>
                   Cardinality(AlertsOf(alerts', b, after))
                       = Cardinality(AlertsOf(alerts, b, after)) + 1
            /\ (after = before /\ expenses' # expenses) =>
                   \A t \in ALERT_TYPES :
                       AlertsOf(alerts', b, t) \subseteq AlertsOf(alerts, b, t)
      ]_vars

----------------------------------------------------------------------------
(* SpecLedger: one stored budget, drawn from budgets of several amounts,    *)
(* thresholds and periods (a one-day and a reversed period among them), the *)
(* expenses of its owner and of another user on and around the period's     *)
(* boundaries, and the clock.                                               *)

LedgerPeriods ==
    {<<Date(2024, 2, 1), Date(2024, 2, 29)>>,
     <<Date(2024, 3, 1), Date(2024, 3, 31)>>,
     <<Date(2024, 3, 1), Date(2024, 3, 1)>>,
     <<Date(2024, 3, 1), Date(2024, 2, 29)>>}

LedgerBudgets ==
    {[NewBudget("alice", "custom", amount, Date(2024, 2, 1), Date(2024, 2, 29))
        EXCEPT !.id = 1, !.alert_threshold = threshold] :
        amount \in {0, 50000}, threshold \in {0, 80}}
    \cup {[NewBudget("alice", "custom", 50000, p[1], p[2]) EXCEPT !.id = 1] :
            p \in LedgerPeriods}

LedgerExpenseInputs ==
    {<<"alice", amount, date>> :
        amount \in {5000, 45000},
        date \in {Date(2024, 1, 31), Date(2024, 2, 1), Date(2024, 2, 29),
                  Date(2024, 3, 1)}}
    \cup {<<"bob", 45000, Date(2024, 2, 29)>>}

InitLedger ==
    /\ categories = {CategoryRow(1, "alice", "Food", 0)}
    /\ budgets \in {{b} : b \in LedgerBudgets}
    /\ allocations = {}
    /\ expenses = {}
    /\ alerts = {}
    /\ nextId = [t \in {"category", "budget", "allocation", "expense", "alert"} |->
                    IF t \in {"category", "budget"} THEN 2 ELSE 1]
    /\ requests = <<>>
    /\ accounts = {}
    /\ counters = NoCounters
    /\ today = DefaultToday
    /\ call = NoCall
    /\ resp = [outcome |-> "pending"]

NextLedger ==
    \/ \E i \in LedgerExpenseInputs : CreateExpense(i[1], 1, i[2], i[3])
    \/ \E e \in expenses : DeleteExpense(e)
    \/ Tick
    \/ \E b \in budgets : ReadLedger(b)

SpecLedger == InitLedger /\ [][NextLedger]_vars

\* an expense of the budget's owner dated within the budget's period, both
\* ends included
InPeriod(b, e) ==
    /\ e.user = b.user
    /\ ToOrdinal(b.start_date) <= ToOrdinal(e.date)
    /\ ToOrdinal(e.date) <= ToOrdinal(b.end_date)

\* the budget whose properties the last call read
ReadBudget == CHOOSE b \in budgets : b.id = call.id

\* what the budget's owner spent within its period
Spent(b) == SumAmount({e \in expenses : InPeriod(b, e)})

\* C12: total_expenses is 0 when no expense is its owner's and within the
\* period; an expense added (removed) raises (lowers) it by the expense's
\* amount when the expense is the owner's and dated start_date..end_date
\* inclusive, and leaves it unchanged otherwise.
TotalIsSumOfMatchingExpenses ==
    [][\A b \in budgets \cap budgets' :
        /\ (~ \E e \in expenses : InPeriod(b, e)) =>
                TotalExpenses(b, expenses).value = 0
        /\ \A e \in expenses' \ expenses :
              expenses' = expenses \cup {e} =>
                TotalExpenses(b, expenses').value =
                    TotalExpenses(b, expenses).value
                        + (IF InPeriod(b, e) THEN e.amount ELSE 0)
        /\ \A e \in expenses \ expenses' :
              expenses' = expenses \ {e} =>
                TotalExpenses(b, expenses').value =
                    TotalExpenses(b, expenses).value
                        - (IF InPeriod(b, e) THEN e.amount ELSE 0)
      ]_vars

\* C12 witness: an expense dated on the end_date counts, and another one,
\* of another user or outside the period, does not.
TotalCountsEndDateOnly ==
    \E b \in budgets : \E e1, e2 \in expenses :
        /\ e1.user = b.user /\ e1.date = b.end_date
        /\ ~ InPeriod(b, e2)
        /\ expenses = {e1, e2}
        /\ TotalExpenses(b, expenses).value = e1.amount

\* C13: remaining_amount is amount - total_expenses, negative exactly when
\* total_expenses exceeds amount.
RemainingIsAmountMinusTotal ==
    call.op = "Budget.ledger" =>
        /\ resp.remaining_amount = Decimal(ReadBudget.amount - Spent(ReadBudget))
        /\ (resp.remaining_amount.value < 0
                <=> Spent(ReadBudget) > ReadBudget.amount)

\* C14: usage_percentage is total_expenses / amount * 100 when amount > 0
\* and 0 when amount is 0, and never an error.
UsageIsTotalOverAmount ==
    call.op = "Budget.ledger" =>
        /\ resp.usage_percentage.kind # "TypeError"
        /\ IF ReadBudget.amount > 0
           THEN /\ resp.usage_percentage.num = Spent(ReadBudget) * 100
                /\ resp.usage_percentage.den = ReadBudget.amount
           ELSE resp.usage_percentage.num = 0

\* C15: is_over_budget is true exactly when total_expenses > amount; a
\* total equal to the amount is not over budget.
OverBudgetIffTotalExceedsAmount ==
    call.op = "Budget.ledger" =>
        (resp.is_over_budget <=> Spent(ReadBudget) > ReadBudget.amount)

\* C15 witness: a budget read with a positive total equal to its amount,
\* and not over budget.
TotalEqualsAmountNotOver ==
    /\ call.op = "Budget.ledger"
    /\ Spent(ReadBudget) = ReadBudget.amount
    /\ ReadBudget.amount > 0
    /\ ~ resp.is_over_budget

\* the usage percentage of the Budget Ledger: total_expenses * 100 / amount
\* for a positive amount and 0 otherwise, compared with a threshold
UsageAtLeast(b, threshold) ==
    IF b.amount > 0 THEN Spent(b) * 100 >= threshold * b.amount
    ELSE 0 >= threshold

\* C16: is_near_limit is true exactly when usage_percentage >= the alert
\* threshold.
NearLimitIffUsageAtThreshold ==
    call.op = "Budget.ledger" =>
        resp.is_near_limit
            = Bool(UsageAtLeast(ReadBudget, ReadBudget.alert_threshold))

\* C17: no budget is near its limit and over budget at once.
NearLimitExcludesOverBudget ==
    call.op = "Budget.ledger" =>
        ~ (resp.is_near_limit = Bool(TRUE) /\ resp.is_over_budget)

\* C18: days_remaining is max(0, end_date - today): never negative, and 0
\* on the end_date and after it.
DaysRemainingIsClampedDifference ==
    call.op = "Budget.ledger" =>
        LET diff == ToOrdinal(ReadBudget.end_date) - ToOrdinal(today)
        IN  /\ resp.days_remaining >= 0
            /\ resp.days_remaining = (IF diff > 0 THEN diff ELSE 0)

\* C18 witness: a budget read after its end_date, with 0 days remaining.
ReadAfterEndDate ==
    /\ call.op = "Budget.ledger"
    /\ ToOrdinal(today) > ToOrdinal(ReadBudget.end_date)
    /\ resp.days_remaining = 0

\* C19: progress_percentage lies in [0, 100]; it is
\* (today - start_date) / (end_date - start_date) * 100 clamped to that
\* range, and 100 whenever end_date - start_date <= 0 days.
ProgressIsClampedRatio ==
    call.op = "Budget.ledger" =>
        LET total == ToOrdinal(ReadBudget.end_date)
                        - ToOrdinal(ReadBudget.start_date)
            elapsed == ToOrdinal(today) - ToOrdinal(ReadBudget.start_date)
            p == resp.progress_percentage
        IN  /\ 0 <= p.num /\ p.num <= 100 * p.den
            /\ total <= 0 => p.num = 100 * p.den
            /\ (total > 0 /\ elapsed <= 0) => p.num = 0
            /\ (total > 0 /\ elapsed >= total) => p.num = 100 * p.den
            /\ (total > 0 /\ 0 < elapsed /\ elapsed < total) =>
                    p.num * total = elapsed * 100 * p.den

\* C19 witness: a budget of a positive period read after its end_date, at
\* 100 percent.
ProgressClampedAfterEnd ==
    /\ call.op = "Budget.ledger"
    /\ ToOrdinal(ReadBudget.end_date) > ToOrdinal(ReadBudget.start_date)
    /\ ToOrdinal(today) > ToOrdinal(ReadBudget.end_date)
    /\ resp.progress_percentage.num = 100 * resp.progress_percentage.den

----------------------------------------------------------------------------
(* budgets.BudgetTemplate.create_budget *)

PyInt(v) == [kind |-> "int", value |-> v]

\* TemplateCategory.get_allocation_amount:
\* (total_budget * allocation_percentage) / 100, in cents
GetAllocationAmount(total_budget, allocation_percentage) ==
    Ratio("Decimal", total_budget * allocation_percentage, 100)

\* (amount * percentage) / 100 in create_budget, for an amount that is a
\* Decimal or a float and a percentage read from JSON, an int or a float:
\* Decimal * float raises TypeError
TemplateAmount(amount, percentage) ==
    IF amount.kind = "Decimal" /\ percentage.kind = "float" THEN TypeError
    ELSE Ratio(amount.kind, amount.value * percentage.value, 100)

\* the DecimalField of two decimal places as written to the table: the
\* value quantized to whole cents, halves to the even cent
Quantize(r) ==
    LET q == r.num \div r.den
        rem == r.num % r.den
    IN  IF 2 * rem > r.den THEN q + 1
        ELSE IF 2 * rem = r.den THEN q + (q % 2)
        ELSE q

\* the loop of create_budget over category_allocations.items() from entry i
\* on: user.categories.get(name=...), BudgetCategory.objects.create(...),
\* and `except: continue` around both
RECURSIVE TemplateLoop(_, _, _, _, _, _, _)
TemplateLoop(items, i, user, amount, budget_id, rows, next) ==
    IF i > Len(items) THEN [rows |-> rows, next |-> next]
    ELSE LET found == {c \in categories :
                            c.user = user /\ c.name = items[i].category_name}
             value == TemplateAmount(amount, items[i].percentage)
         IN  IF found = {} \/ value.kind = "TypeError"
             THEN TemplateLoop(items, i + 1, user, amount, budget_id, rows, next)
             ELSE LET category == CHOOSE c \in found : TRUE
                  IN  TemplateLoop(items, i + 1, user, amount, budget_id,
                        rows \cup {[id |-> next, budget |-> budget_id,
                                    category |-> category.id,
                                    allocated_amount |-> Quantize(value)]},
                        next + 1)

\* BudgetTemplate.create_budget(user, amount, start_date, end_date=...)
CreateBudgetFromTemplate(template, user, amount, start_date, end_date) ==
    LET start == IF start_date = NoDate THEN today ELSE start_date
        r == BudgetSave(NewBudget(user, template.budget_type, amount.value,
                                  start, end_date), today)
        loop == TemplateLoop(template.category_allocations, 1, user, amount,
                             nextId["budget"], allocations,
                             nextId["allocation"])
    IN  /\ nextId["budget"] <= MaxBudgets
        /\ nextId["allocation"] + Len(template.category_allocations)
                <= MaxAllocations + 1
        /\ call' = [op |-> "BudgetTemplate.create_budget",
                    template |-> template, user |-> user, amount |-> amount,
                    budget |-> nextId["budget"]]
        /\ resp' = [outcome |-> r.outcome]
        /\ IF r.outcome = "saved"
           THEN /\ budgets' = budgets \cup {[r.row EXCEPT !.id = nextId["budget"]]}
                /\ allocations' = loop.rows
                /\ nextId' = [nextId EXCEPT !["budget"] = @ + 1,
                                            !["allocation"] = loop.next]
           ELSE UNCHANGED <<budgets, allocations, nextId>>
        /\ UNCHANGED <<categories, expenses, alerts, requests, today,
                       accounts, counters>>

----------------------------------------------------------------------------
(* SpecTemplate: budgets created from templates for a user who has the     *)
(* categories Food and Rent (another user has a category Travel), one      *)
(* budget at a time.                                                       *)

Item(category_name, percentage) ==
    [category_name |-> category_name, percentage |-> percentage]

TemplateAllocations ==
    {<<Item("Food", PyInt(30)), Item("Rent", PyInt(80))>>,
     <<Item("Travel", PyInt(30)), Item("Food", PyInt(30))>>,
     <<Item("Food", Float(50))>>,
     <<>>}

Templates ==
    {[budget_type |-> budget_type, category_allocations |-> items] :
        budget_type \in {"monthly", "yearly", "custom"},
        items \in TemplateAllocations}

TemplateTotals == {Decimal(10000), Decimal(10001), Float(10000)}

InitTemplate ==
    /\ categories = {CategoryRow(1, "alice", "Food", 0),
                     CategoryRow(2, "alice", "Rent", 0),
                     CategoryRow(3, "bob", "Travel", 0)}
    /\ budgets = {}
    /\ allocations = {}
    /\ expenses = {}
    /\ alerts = {}
    /\ nextId = [t \in {"category", "budget", "allocation", "expense", "alert"} |->
                    IF t = "category" THEN 4 ELSE 1]
    /\ requests = <<>>
    /\ accounts = {}
    /\ counters = NoCounters
    /\ today = DefaultToday
    /\ call = NoCall
    /\ resp = [outcome |-> "pending"]

NextTemplate ==
    \/ /\ budgets = {}
       /\ \E template \in Templates, amount \in TemplateTotals,
             start_date \in {NoDate, Date(2024, 12, 31)} :
            \E end_date \in {NoDate, Date(2025, 1, 30)} :
               CreateBudgetFromTemplate(template, "alice", amount, start_date,
                                        end_date)
    \/ \E b \in budgets : DeleteBudget(b)

SpecTemplate == InitTemplate /\ [][NextTemplate]_vars

\* the ids of the user's categories named category_name
CategoriesNamed(user, category_name) ==
    {c.id : c \in {x \in categories : x.user = user /\ x.name = category_name}}

\* C20: create_budget always creates the budget, with exactly one
\* allocation of total * percentage / 100 for each pair that names a
\* category of the user, and with no allocation for any other pair.
TemplateCreatesBudgetAndAllocations ==
    call.op = "BudgetTemplate.create_budget" =>
        LET items == call.template.category_allocations
            mine == {a \in allocations : a.budget = call.budget}
        IN  /\ \E b \in budgets : b.id = call.budget
            /\ \A i \in 1..Len(items) :
                 \A c \in CategoriesNamed(call.user, items[i].category_name) :
                    LET expected == GetAllocationAmount(call.amount.value,
                                        items[i].percentage.value)
                    IN  Cardinality({a \in mine :
                            /\ a.category = c
                            /\ a.allocated_amount * expected.den
                                    = expected.num}) = 1
            /\ \A a \in mine :
                 \E i \in 1..Len(items) :
                    a.category \in CategoriesNamed(call.user,
                                                   items[i].category_name)

----------------------------------------------------------------------------
(* SpecAllocOps: the allocations of a user who has the categories Food and  *)
(* Rent and one budget, under direct allocation requests, updates, deletes  *)
(* and budgets created from templates.                                      *)

OpsTemplates ==
    {[budget_type |-> "monthly", category_allocations |-> items] :
        items \in {<<Item("Food", PyInt(30)), Item("Rent", PyInt(80))>>,
                   <<Item("Food", PyInt(0))>>}}

\* 0.00 and 10.00
OpsAmounts == {0, 1000}

InitAllocOps ==
    /\ categories = {CategoryRow(1, "alice", "Food", 0),
                     CategoryRow(2, "alice", "Rent", 0)}
    /\ budgets = {BudgetRow(1, "alice", 10000, January.start, January.end, TRUE)}
    /\ allocations = {}
    /\ expenses = {}
    /\ alerts = {}
    /\ nextId = [t \in {"category", "budget", "allocation", "expense", "alert"} |->
                    IF t = "category" THEN 3 ELSE IF t = "budget" THEN 2 ELSE 1]
    /\ requests = <<>>
    /\ accounts = {}
    /\ counters = NoCounters
    /\ today = DefaultToday
    /\ call = NoCall
    /\ resp = [outcome |-> "pending"]

NextAllocOps ==
    \/ \E b \in budgets, c \in categories, amount \in OpsAmounts :
            CreateAllocation(b.id, c.id, amount)
    \/ \E a \in allocations, amount \in OpsAmounts : UpdateAllocation(a, amount)
    \/ \E a \in allocations, c \in categories : ReassignAllocation(a, c.id)
    \/ \E a \in allocations : DeleteAllocation(a)
    \/ \E template \in OpsTemplates :
            CreateBudgetFromTemplate(template, "alice", Decimal(10000), NoDate,
                                     NoDate)
    \/ \E b \in budgets : DeleteBudget(b)

SpecAllocOps == InitAllocOps /\ [][NextAllocOps]_vars

\* C21: the allocations table never holds two rows of one (budget,
\* category) pair.
OneAllocationPerPair ==
    \A a1, a2 \in allocations :
        (a1.budget = a2.budget /\ a1.category = a2.category) => a1 = a2

\* C21 witness: an allocation request for a pair that has a row already was
\* refused, and the pair still has its one row.
SecondAllocateRefused ==
    /\ call.op = "BudgetCategory.create"
    /\ resp.outcome = "400"
    /\ AllocatedAmountValid(call.amount)
    /\ Cardinality({a \in allocations :
            a.budget = call.budget /\ a.category = call.category}) = 1

\* C22: every stored allocation has an allocated_amount of at least 0.01.
StoredAllocationsPositive ==
    \A a \in allocations : a.allocated_amount >= 1

----------------------------------------------------------------------------
(* SpecAlertLife: the alerts of one budget, one at a time, while they are   *)
(* read and dismissed, the clock moves on, and the budget, its expenses and *)
(* its allocations come and go.                                             *)

NextAlertLife ==
    \/ CreateExpense("alice", 1, 9000, Date(2024, 2, 29))
    \/ \E e \in expenses : DeleteExpense(e)
    \/ alerts = {} /\ CreateAlert("alice", 1, "near_limit")
    \/ \E a \in alerts : DeleteAlert(a)
    \/ \E a \in alerts : MarkAsRead(a)
    \/ \E a \in alerts : Dismiss(a)
    \/ CreateAllocation(1, 1, 1000)
    \/ \E a \in allocations : DeleteAllocation(a)
    \/ \E b \in budgets : DeleteBudget(b)
    \/ Tick

SpecAlertLife == InitAlert /\ [][NextAlertLife]_vars

\* C23: once an alert is read, its read_at stays what the first
\* mark_as_read made it, and is_read stays true.
ReadAtSetOnFirstReadOnly ==
    [][\A a \in alerts, a2 \in alerts' :
        (a.id = a2.id /\ a.is_read) =>
            (a2.is_read /\ a2.read_at = a.read_at)]_vars

AlertIds(rows) == {a.id : a \in rows}

----------------------------------------------------------------------------
(* The budget figures of categories.Category *)

\* Category.total_expenses with timezone.now() on the day now: the expenses
\* of the category dated from the first of the current month on, or the
\* float 0.00 when the aggregate is None or zero
CategoryTotalExpenses(c, rows, now) ==
    LET start_of_month == Date(now.year, now.month, 1)
        total == SumAmount({e \in rows :
                    e.category = c.id /\ DateLE(start_of_month, e.date)})
    IN  IF total = 0 THEN Float(0) ELSE Decimal(total)

\* Category.budget_amount for an owner of the given monthly_income:
\* (monthly_income * budget_percentage) / 100, or the float 0.00
CategoryBudgetAmount(c, monthly_income) ==
    IF c.budget_percentage > 0
    THEN Ratio("Decimal", monthly_income * c.budget_percentage, 100)
    ELSE Ratio("float", 0, 1)

\* Category.remaining_budget: budget_amount - total_expenses, which raises
\* when one is a Decimal and the other a float
CategoryRemainingBudget(c, monthly_income, rows, now) ==
    LET budget == CategoryBudgetAmount(c, monthly_income)
        total == CategoryTotalExpenses(c, rows, now)
    IN  IF budget.kind # total.kind THEN TypeError
        ELSE Ratio(budget.kind, budget.num - total.value * budget.den,
                   budget.den)

\* Category.usage_percentage: (total_expenses / budget_amount) * 100 for a
\* budget_amount above 0, where float / Decimal raises; else the float 0.00
CategoryUsagePercentage(c, monthly_income, rows, now) ==
    LET budget == CategoryBudgetAmount(c, monthly_income)
        total == CategoryTotalExpenses(c, rows, now)
    IN  IF budget.num > 0
        THEN IF total.kind = "float" THEN TypeError
             ELSE Ratio("Decimal", total.value * 100 * budget.den, budget.num)
        ELSE Ratio("float", 0, 1)

\* the figures of a stored category whose owner has the given monthly_income
ReadCategory(c, monthly_income) ==
    /\ c \in categories
    /\ call' = [op |-> "Category.read", id |-> c.id,
                monthly_income |-> monthly_income]
    /\ resp' = [outcome |-> "read",
                total_expenses |-> CategoryTotalExpenses(c, expenses, today),
                budget_amount |-> CategoryBudgetAmount(c, monthly_income),
                remaining_budget |->
                    CategoryRemainingBudget(c, monthly_income, expenses, today),
                usage_percentage |->
                    CategoryUsagePercentage(c, monthly_income, expenses, today)]
    /\ UNCHANGED <<categories, budgets, allocations, expenses, alerts, nextId,
                   requests, today,
                   accounts, counters>>

----------------------------------------------------------------------------
(* SpecCategoryLedger: one category of 0% or 30%, the expenses booked to    *)
(* it around the turn of the month, the clock, and an owner whose           *)
(* monthly_income is 0.00 or 1000.00.                                       *)

Incomes == {0, 100000}

InitCategoryLedger ==
    /\ categories \in {{CategoryRow(1, "alice", "Food", p)} : p \in {0, 30}}
    /\ budgets = {}
    /\ allocations = {}
    /\ expenses = {}
    /\ alerts = {}
    /\ nextId = [t \in {"category", "budget", "allocation", "expense", "alert"} |->
                    IF t = "category" THEN 2 ELSE 1]
    /\ requests = <<>>
    /\ accounts = {}
    /\ counters = NoCounters
    /\ today = DefaultToday
    /\ call = NoCall
    /\ resp = [outcome |-> "pending"]

NextCategoryLedger ==
    \/ \E amount \in {2000, 30000},
          date \in {Date(2024, 1, 31), Date(2024, 2, 1), Date(2024, 3, 1)} :
            CreateExpense("alice", 1, amount, date)
    \/ \E e \in expenses : DeleteExpense(e)
    \/ Tick
    \/ \E c \in categories, monthly_income \in Incomes :
            ReadCategory(c, monthly_income)

SpecCategoryLedger == InitCategoryLedger /\ [][NextCategoryLedger]_vars

\* the category whose figures the last call read
ReadCategoryRow == CHOOSE c \in categories : c.id = call.id

\* a quotient rounded to 2 decimals, in hundredths, halves to even
Round2(r) ==
    (r.num \div r.den) * 100
        + Quantize(Ratio(r.kind, (r.num % r.den) * 100, r.den))

\* C25: budget_amount is monthly_income * budget_percentage / 100,
\* remaining_budget is budget_amount - total_expenses, and usage_percentage
\* is total_expenses / budget_amount * 100 to 2 decimals, 0 when
\* budget_amount is 0.
CategoryFiguresFollowIncome ==
    call.op = "Category.read" =>
        LET share == call.monthly_income * ReadCategoryRow.budget_percentage
            spent == resp.total_expenses.value
        IN  /\ resp.budget_amount.num * 100 = share * resp.budget_amount.den
            /\ resp.remaining_budget.kind # "TypeError"
            /\ resp.remaining_budget.num * 100
                    = (share - spent * 100) * resp.remaining_budget.den
            /\ resp.usage_percentage.kind # "TypeError"
            /\ IF share > 0
               THEN Round2(resp.usage_percentage)
                        = Round2(Ratio("Decimal", spent * 10000, share))
               ELSE resp.usage_percentage.num = 0

----------------------------------------------------------------------------
(* The figures of budgets.BudgetCategory *)

AllocationTotalExpensesAnyCategory(a, rows) ==
    LET b == BudgetById(a.budget)
        total == SumAmount({e \in rows :
                    /\ e.user = b.user
                    /\ DateLE(b.start_date, e.date)
                    /\ DateLE(e.date, b.end_date)})
    IN  IF total = 0 THEN Float(0) ELSE Decimal(total)

\* BudgetCategory.total_expenses: the Sum aggregate over the expenses of the
\* budget's user in the allocation's category within the budget's period,
\* or the float 0.00 when the aggregate is None or zero
AllocationTotalExpenses(a, rows) ==
    LET b == BudgetById(a.budget)
        total == SumAmount({e \in rows :
                    /\ e.user = b.user
                    /\ e.category = a.category
                    /\ DateLE(b.start_date, e.date)
                    /\ DateLE(e.date, b.end_date)})
    IN  IF total = 0 THEN Float(0) ELSE Decimal(total)

\* BudgetCategory.remaining_amount: Decimal - float raises
AllocationRemainingAmount(a, rows) ==
    LET total == AllocationTotalExpenses(a, rows)
    IN  IF total.kind = "float" THEN TypeError
        ELSE Decimal(a.allocated_amount - total.value)

\* BudgetCategory.usage_percentage: (total_expenses / allocated_amount) * 100
\* for allocated_amount > 0, where float / Decimal raises; else the float 0.00
AllocationUsagePercentage(a, rows) ==
    LET total == AllocationTotalExpenses(a, rows)
    IN  IF a.allocated_amount > 0
        THEN IF total.kind = "float" THEN TypeError
             ELSE Ratio("Decimal", total.value * 100, a.allocated_amount)
        ELSE Ratio("float", 0, 1)

\* the figures of a stored allocation
ReadAllocation(a) ==
    /\ a \in allocations
    /\ call' = [op |-> "BudgetCategory.read", id |-> a.id]
    /\ resp' = [outcome |-> "read",
                total_expenses |-> AllocationTotalExpenses(a, expenses),
                remaining_amount |-> AllocationRemainingAmount(a, expenses),
                usage_percentage |-> AllocationUsagePercentage(a, expenses)]
    /\ UNCHANGED <<categories, budgets, allocations, expenses, alerts, nextId,
                   requests, today,
                   accounts, counters>>

----------------------------------------------------------------------------
(* SpecAllocLedger: a budget for February 2024 of a user who has the        *)
(* categories Food and Rent, its allocations (and those of budgets created  *)
(* from a template), and the expenses of the user and of another user on    *)
(* the last day of the period and the day after.                            *)

AllocLedgerExpenseInputs ==
    {<<"alice", 1, 1000, Date(2024, 2, 29)>>,
     <<"alice", 2, 1000, Date(2024, 2, 29)>>,
     <<"alice", 1, 1000, Date(2024, 3, 1)>>,
     <<"bob", 1, 1000, Date(2024, 2, 29)>>}

AllocLedgerTemplate ==
    [budget_type |-> "monthly",
     category_allocations |-> <<Item("Food", PyInt(0)), Item("Rent", PyInt(30))>>]

InitAllocLedger ==
    /\ categories = {CategoryRow(1, "alice", "Food", 0),
                     CategoryRow(2, "alice", "Rent", 0)}
    /\ budgets = {BudgetRow(1, "alice", 10000, Date(2024, 2, 1),
                            Date(2024, 2, 29), TRUE)}
    /\ allocations = {}
    /\ expenses = {}
    /\ alerts = {}
    /\ nextId = [t \in {"category", "budget", "allocation", "expense", "alert"} |->
                    IF t = "category" THEN 3 ELSE IF t = "budget" THEN 2 ELSE 1]
    /\ requests = <<>>
    /\ accounts = {}
    /\ counters = NoCounters
    /\ today = DefaultToday
    /\ call = NoCall
    /\ resp = [outcome |-> "pending"]

NextAllocLedger ==
    \/ \E i \in AllocLedgerExpenseInputs : CreateExpense(i[1], i[2], i[3], i[4])
    \/ \E e \in expenses : DeleteExpense(e)
    \/ \E b \in budgets, c \in categories : CreateAllocation(b.id, c.id, 1000)
    \/ \E a \in allocations, c \in categories : ReassignAllocation(a, c.id)
    \/ \E a \in allocations : DeleteAllocation(a)
    \/ CreateBudgetFromTemplate(AllocLedgerTemplate, "alice", Decimal(10000),
                                NoDate, NoDate)
    \/ \E a \in allocations : ReadAllocation(a)

SpecAllocLedger == InitAllocLedger /\ [][NextAllocLedger]_vars

\* the allocation whose figures the last call read
ReadAllocationRow == CHOOSE a \in allocations : a.id = call.id

\* what the budget's owner spent in the allocation's category within the
\* budget's period
SpentUnder(a) ==
    SumAmount({e \in expenses :
                  e.category = a.category /\ InPeriod(BudgetById(a.budget), e)})

\* C26: an allocation's total_expenses is the sum of the budget owner's
\* expenses in its category dated within the budget's period, its remaining
\* amount is allocated_amount - total_expenses, and its usage_percentage is
\* total_expenses / allocated_amount * 100, 0 when allocated_amount is 0.
AllocationFiguresMirrorLedger ==
    call.op = "BudgetCategory.read" =>
        LET a == ReadAllocationRow
        IN  /\ resp.total_expenses.value = SpentUnder(a)
            /\ resp.remaining_amount
                    = Decimal(a.allocated_amount - SpentUnder(a))
            /\ resp.usage_percentage.kind # "TypeError"
            /\ IF a.allocated_amount > 0
               THEN /\ resp.usage_percentage.num = SpentUnder(a) * 100
                    /\ resp.usage_percentage.den = a.allocated_amount
               ELSE resp.usage_percentage.num = 0

RECURSIVE SumAllocationTotals(_)
SumAllocationTotals(rows) ==
    IF rows = {} THEN 0
    ELSE LET a == CHOOSE x \in rows : TRUE
         IN  AllocationTotalExpenses(a, expenses).value
             + SumAllocationTotals(rows \ {a})

----------------------------------------------------------------------------
(* Budget.get_monthly_budget *)

\* the rows that cls.objects.get(user=..., start_date__lte=start_date,
\* end_date__gte=end_date, is_active=True) matches, where start_date is the
\* first of the month and end_date the first of the month after it
MonthlyBudgetMatches(user, year, month) ==
    LET start_date == Date(year, month, 1)
        end_date == IF month = 12 THEN Date(year + 1, 1, 1)
                    ELSE Date(year, month + 1, 1)
    IN  {b \in budgets :
            /\ b.user = user
            /\ DateLE(b.start_date, start_date)
            /\ DateLE(end_date, b.end_date)
            /\ b.is_active}

\* Budget.get_monthly_budget(user, year, month): the one matching row, None
\* when there is none, and get()'s MultipleObjectsReturned otherwise
GetMonthlyBudget(user, year, month) ==
    LET found == MonthlyBudgetMatches(user, year, month)
    IN  /\ call' = [op |-> "Budget.get_monthly_budget", user |-> user,
                    year |-> year, month |-> month]
        /\ resp' = IF found = {} THEN [outcome |-> "None", id |-> 0]
                   ELSE IF Cardinality(found) = 1
                   THEN [outcome |-> "budget",
                         id |-> (CHOOSE b \in found : TRUE).id]
                   ELSE [outcome |-> "MultipleObjectsReturned", id |-> 0]
        /\ UNCHANGED <<categories, budgets, allocations, expenses, alerts,
                       nextId, requests, today,
                       accounts, counters>>

----------------------------------------------------------------------------
(* SpecMonthly: monthly budgets of two users started on the first of        *)
(* February or December 2024, with the end_date derived by save or given as *)
(* the first of the following month, switched on and off, and looked up by  *)
(* month.                                                                   *)

MonthlyStarts == {Date(2024, 2, 1), Date(2024, 12, 1)}

FirstOfNextMonth(d) ==
    IF d.month = 12 THEN Date(d.year + 1, 1, 1) ELSE Date(d.year, d.month + 1, 1)

NextMonthly ==
    \/ \E user \in Users, start_date \in MonthlyStarts :
         \E end_date \in {NoDate, FirstOfNextMonth(start_date)} :
            CreateBudget(user, "monthly", 10000, start_date, end_date)
    \/ \E b \in budgets :
            UpdateBudget(b, b.budget_type, b.amount, b.start_date, b.end_date,
                         ~ b.is_active)
    \/ \E b \in budgets : DeleteBudget(b)
    \/ \E user \in Users, month \in {2, 12} : GetMonthlyBudget(user, 2024, month)

SpecMonthly == InitBudget /\ [][NextMonthly]_vars

\* C27: a lookup returns the user's active budget whose period is the
\* first through the last day of the month asked for, and None when the
\* user has no active budget covering that month.
MonthlyBudgetFound ==
    call.op = "Budget.get_monthly_budget" =>
        LET first == Date(call.year, call.month, 1)
            last == Date(call.year, call.month,
                         DaysInMonth(call.year, call.month))
            mine == {b \in budgets : b.user = call.user /\ b.is_active}
        IN  /\ \A b \in mine :
                  (b.start_date = first /\ b.end_date = last
                   /\ Cardinality(mine) = 1) =>
                        (resp.outcome = "budget" /\ resp.id = b.id)
            /\ (~ \E b \in mine :
                    DateLE(b.start_date, first) /\ DateLE(last, b.end_date))
                  => resp.outcome = "None"

----------------------------------------------------------------------------
(* accounts: PasswordResetView *)

\* the strings serializers.EmailField accepts
WellFormedEmails == {"a@example.org", "b@example.org", "c@example.org"}

\* UserRegistrationView.post: UserRegistrationSerializer.validate refuses a
\* username or an email that a user has already
Register(username, email) ==
    /\ call' = [op |-> "UserRegistrationView.post", email |-> email]
    /\ IF \E a \in accounts : a.username = username \/ a.email = email
       THEN resp' = [status |-> 400, body |-> "already exists"]
            /\ UNCHANGED accounts
       ELSE resp' = [status |-> 201, body |-> "User registered successfully"]
            /\ accounts' = accounts
                    \cup {[username |-> username, email |-> email]}
    /\ UNCHANGED <<categories, budgets, allocations, expenses, alerts, nextId,
                   requests, today, counters>>

\* UserProfileView.update of email: the model field is AbstractUser's, which
\* is not unique
UpdateEmail(a, email) ==
    /\ a \in accounts
    /\ email # a.email
    /\ call' = [op |-> "UserProfileView.update", email |-> email]
    /\ resp' = [status |-> 200, body |-> "updated"]
    /\ accounts' = (accounts \ {a}) \cup {[a EXCEPT !.email = email]}
    /\ UNCHANGED <<categories, budgets, allocations, expenses, alerts, nextId,
                   requests, today, counters>>

\* UserDetailView.destroy
Unregister(a) ==
    /\ a \in accounts
    /\ call' = [op |-> "UserDetailView.destroy", email |-> a.email]
    /\ resp' = [status |-> 204, body |-> ""]
    /\ accounts' = accounts \ {a}
    /\ UNCHANGED <<categories, budgets, allocations, expenses, alerts, nextId,
                   requests, today, counters>>

\* PasswordResetSerializer.is_valid(): the EmailField, then validate_email
PasswordResetErrors(email, rows) ==
    IF email \notin WellFormedEmails THEN "Enter a valid email address."
    ELSE IF ~ \E a \in rows : a.email = email
    THEN "No user found with this email address"
    ELSE "none"

\* the response of PasswordResetView.post to a request for email, over the
\* users table rows, with send_mail succeeding or raising
PasswordResetResponse(email, rows, mail_sent) ==
    LET errors == PasswordResetErrors(email, rows)
        found == {a \in rows : a.email = email}
    IN  IF errors # "none" THEN [status |-> 400, body |-> errors]
        ELSE IF Cardinality(found) > 1
        THEN [status |-> 500, body |-> "MultipleObjectsReturned"]
        ELSE IF found = {}
        THEN [status |-> 200,
              body |-> "Password reset email sent successfully"]
        ELSE IF mail_sent
        THEN [status |-> 200,
              body |-> "Password reset email sent successfully"]
        ELSE [status |-> 500, body |-> "SMTPException"]

\* PasswordResetView.post
PasswordReset(email, mail_sent) ==
    /\ call' = [op |-> "PasswordResetView.post", email |-> email,
                mail_sent |-> mail_sent]
    /\ resp' = PasswordResetResponse(email, accounts, mail_sent)
    /\ UNCHANGED <<categories, budgets, allocations, expenses, alerts, nextId,
                   requests, today, accounts, counters>>

----------------------------------------------------------------------------
(* SpecAccounts: users come and go, and password resets are requested for   *)
(* registered, unregistered and malformed addresses.                        *)

InitAccounts ==
    /\ EmptyTables
    /\ today = DefaultToday
    /\ call = NoCall
    /\ resp = [outcome |-> "pending"]

NextAccounts ==
    \/ \E username \in Users, email \in WellFormedEmails :
            Register(username, email)
    \/ \E a \in accounts, email \in WellFormedEmails : UpdateEmail(a, email)
    \/ \E a \in accounts : Unregister(a)
    \/ \E email \in WellFormedEmails \cup {"nonsense"}, mail_sent \in BOOLEAN :
            PasswordReset(email, mail_sent)

SpecAccounts == InitAccounts /\ [][NextAccounts]_vars

\* C28: the response to a password-reset request for a well-formed address
\* is the one it gets when the address is registered to one user (and the
\* mail goes out), whether or not the address is registered.
ResetResponseHidesRegistration ==
    (call.op = "PasswordResetView.post" /\ call.email \in WellFormedEmails
        /\ call.mail_sent
        /\ Cardinality({a \in accounts : a.email = call.email}) <= 1)
      => resp = PasswordResetResponse(call.email,
                    {[username |-> "alice", email |-> call.email]}, TRUE)

----------------------------------------------------------------------------
(* SpecCounterRace: NumWorkers requests at a time, each of which loads its  *)
(* own copy of a template or of a chat session and then calls               *)
(* increment_usage / increment_message_count on that copy.                  *)

InitCounterRace ==
    /\ categories = {}
    /\ budgets = {}
    /\ allocations = {}
    /\ expenses = {}
    /\ alerts = {}
    /\ nextId = [t \in {"category", "budget", "allocation", "expense", "alert"} |-> 1]
    /\ requests = [w \in Workers |->
                    [pc |-> "idle", record |-> "BudgetTemplate", loaded |-> 0,
                     completed |-> NoCounters]]
    /\ accounts = {}
    /\ counters = NoCounters
    /\ today = DefaultToday
    /\ call = NoCall
    /\ resp = [outcome |-> "pending"]

\* the completed increment calls of a worker, all records together
CompletedBy(w) == requests[w].completed["BudgetTemplate"]
                    + requests[w].completed["ChatSession"]

\* a request of worker w fetches its copy of the record: objects.get(...)
LoadRecord(w, record) ==
    /\ requests[w].pc = "idle"
    /\ CompletedBy(w) < MaxIncrements
    /\ requests' = [requests EXCEPT ![w] =
            [@ EXCEPT !.pc = "loaded", !.record = record,
                      !.loaded = counters[record]]]
    /\ UNCHANGED <<categories, budgets, allocations, expenses, alerts, nextId,
                   today, call, resp, accounts, counters>>

\* BudgetTemplate.increment_usage / ChatSession.increment_message_count on
\* the copy of worker w: the copy's count plus one, written by
\* save(update_fields=[...])
IncrementUsage(w) ==
    LET r == requests[w]
    IN  /\ r.pc = "loaded"
        /\ counters' = [counters EXCEPT ![r.record] = r.loaded + 1]
        /\ requests' = [requests EXCEPT ![w] =
                [r EXCEPT !.pc = "idle", !.loaded = r.loaded + 1,
                          !.completed[r.record] = @ + 1]]
        /\ UNCHANGED <<categories, budgets, allocations, expenses, alerts,
                       nextId, today, call, resp, accounts>>

NextCounterRace ==
    \E w \in Workers :
        \/ \E record \in CounterRecords : LoadRecord(w, record)
        \/ IncrementUsage(w)

SpecCounterRace == InitCounterRace /\ [][NextCounterRace]_vars

RECURSIVE SumCompleted(_, _)
SumCompleted(ws, record) ==
    IF ws = {} THEN 0
    ELSE LET w == CHOOSE x \in ws : TRUE
         IN  requests[w].completed[record] + SumCompleted(ws \ {w}, record)

\* C30: the stored counter of a record is the number of increment calls
\* completed on it.
NoIncrementLost ==
    \A record \in CounterRecords :
        counters[record] = SumCompleted(Workers, record)

====
